---- MODULE Spec2Model ----
(***************************************************************************)
(* The simulation/animation bridge of bubble_chamber_bpy (render.py):      *)
(* run_simulation steps a Simulation and materializes every particle as a  *)
(* host (bpy) object with location / hide_render keyframes.                *)
(*                                                                         *)
(* Time is counted in ticks of 1/TicksPerSecond seconds, so that           *)
(* int(time_passed * FPS) is the integer quotient (t * FPS) \div           *)
(* TicksPerSecond.  The host scene is the sequence `objects` (bpy.data.    *)
(* objects in creation order) and `frame_current` (bpy.context.scene).     *)
(***************************************************************************)
EXTENDS Integers, Sequences, FiniteSets, TLC

\* ------------------------------------------------------------------ bounds
NumParticles == 3       \* particles owned by the simulation
MaxSteps == 4           \* every particle is not-alive after this many steps
MaxDt == 3              \* the longest time increment of one step, in ticks
MaxPos == 1             \* positions are drawn from 0..MaxPos
MaxRuns == 2            \* calls of run_simulation in one host session
MaxFirstRun == 2        \* a further run is started after runs of at most this many steps

\* --------------------------------------------------------------- constants
FPS == 30
TicksPerSecond == 2 * FPS

Particles == 0 .. (NumParticles - 1)
Positions == 0 .. MaxPos
Dts == {1, MaxDt}
NoFrame == 0 - 1        \* a particle-system frame_end the pipeline never set
NoObj == 0              \* bpy.data.objects.get(name) found nothing (None)

VARIABLES
    pc,             \* position in run_simulation: init, loop, resolve, branch, done,
                    \* or raised (an exception left run_simulation)
    idx,            \* the for-loop's particle index i
    obj,            \* the handle get_or_create_particle returned for idx
    frame,          \* the local `frame` of run_simulation
    is_alive,       \* p.is_alive of every particle
    is_dirty,       \* p.is_dirty of every particle
    position,       \* p.position of every particle
    time_passed,    \* simulation.time_passed, in ticks
    steps,          \* number of simulation.step() calls of this run
    objects,        \* bpy.data.objects, in creation order
    frame_current,  \* bpy.context.scene.frame_current
    created_now,    \* history: the last get_or_create_particle call created obj
    final_count,    \* history: how often the finalization branch fired, per particle
    post_ops,       \* history: host operations issued for a particle after its finalization
    death_step,     \* history: the step at which the particle became not-alive
    final_frame,    \* history: the step frame at which the particle was finalized
    run             \* history: which call of run_simulation in this host session

vars == <<pc, idx, obj, frame, is_alive, is_dirty, position, time_passed, steps,
          objects, frame_current, created_now, final_count, post_ops, death_step,
          final_frame, run>>

simVars == <<is_alive, is_dirty, position, time_passed, steps, death_step>>

\* ------------------------------------------------------------ pure helpers

\* Variant: the fractional part of time_passed * FPS instead of the integer part.
FrameOfFraction(t) == (t * FPS) % TicksPerSecond

\* frame = int(simulation.time_passed * FPS); int() truncates toward zero.
FrameOf(t) ==
    IF t >= 0 THEN (t * FPS) \div TicksPerSecond
    ELSE 0 - (((0 - t) * FPS) \div TicksPerSecond)

\* name = f"Particle {i}"
ParticleName(i) == <<"Particle", i>>

\* Variant: a lookup that never finds the object (wrong collection or key).
ObjectsGetMiss(objs, name) == NoObj

\* bpy.data.objects.get(name): the handle of the object of that name, or NoObj.
ObjectsGet(objs, name) ==
    LET hits == {h \in DOMAIN objs : objs[h].name = name}
    IN  IF hits = {} THEN NoObj ELSE CHOOSE h \in hits : \A g \in hits : h <= g

\* The host never holds two objects of one name: a taken name gets a suffix.
UniqueName(objs, name) ==
    IF ObjectsGet(objs, name) = NoObj THEN name
    ELSE Append(name, Len(objs))

\* obj.keyframe_insert(data_path=path): records the property's current value
\* at the scene's current frame fr; a key already at fr is replaced.
KeyframeInsert(o, path, fr) ==
    IF path = "location"
    THEN [o EXCEPT !.loc_keys = (fr :> o.location) @@ o.loc_keys,
                   !.log = Append(o.log, [path |-> path, frame |-> fr, value |-> o.location])]
    ELSE [o EXCEPT !.hide_keys = (fr :> o.hide_render) @@ o.hide_keys,
                   !.log = Append(o.log, [path |-> path, frame |-> fr,
                                          value |-> IF o.hide_render THEN 1 ELSE 0])]

\* Variant: set_visibility without the change test.
SetVisibilityAlways(o, vis, fr) ==
    KeyframeInsert([o EXCEPT !.hide_render = ~vis], "hide_render", fr)

\* set_visibility(obj, vis)
SetVisibility(o, vis, fr) ==
    LET hide == ~vis
    IN  IF o.hide_render # hide
        THEN KeyframeInsert([o EXCEPT !.hide_render = hide], "hide_render", fr)
        ELSE o

\* Variant: at_frame without the frame_set(current_frame) after the yield.
AtFrameExitNoRestore(saved, inside) == inside
\* Variant: the excursion goes to the frame after the requested one.
AtFrameEnterOne(fr) == fr + 1

\* at_frame(frame): the scene's frame inside the with-body, and after it.
AtFrameEnter(fr) == fr
AtFrameExit(saved, inside) == saved
\* at_frame(frame) when the with-body raises: the exception is thrown at the
\* yield, there is no try/finally, so the line after the yield is not run.
AtFrameRaise(saved, inside) == inside

\* bpy.ops.mesh.primitive_uv_sphere_add(location=p.position); obj.name = name
NewObject(objs, name, pos) ==
    [name |-> UniqueName(objs, name), hide_render |-> FALSE, location |-> pos,
     loc_keys |-> <<>>, hide_keys |-> <<>>, materials |-> 0,
     frame_start |-> NoFrame, frame_end |-> NoFrame, log |-> <<>>,
     kind |-> "MESH", made_in |-> run]

\* Variant: the material is made and appended after the `if not obj` block,
\* in every call.
GetOrCreateParticleMaterialEveryCall(objs, fc, pos, i) ==
    LET found == ObjectsGet(objs, ParticleName(i))
        o1 == KeyframeInsert([NewObject(objs, ParticleName(i), pos) EXCEPT !.location = pos],
                             "location", fc)
        o2 == SetVisibility(o1, FALSE, AtFrameEnter(0))
        after == AtFrameExit(fc, AtFrameEnter(0))
        o3 == SetVisibility(o2, TRUE, after)
        o4 == [o3 EXCEPT !.materials = @ + 1, !.frame_start = after]
    IN  IF found # NoObj
        THEN [objects |-> [objs EXCEPT ![found].materials = @ + 1], obj |-> found,
              frame_current |-> fc, created |-> FALSE]
        ELSE [objects |-> Append(objs, o4), obj |-> Len(objs) + 1,
              frame_current |-> after, created |-> TRUE]

\* get_or_create_particle(p, i): the scene after the call, the handle returned,
\* and whether the call created the object.
GetOrCreateParticle(objs, fc, pos, i) ==
    LET name == ParticleName(i)
        found == ObjectsGet(objs, name)
        o0 == NewObject(objs, name, pos)
        \* obj.location = p.position; obj.keyframe_insert(data_path="location")
        o1 == KeyframeInsert([o0 EXCEPT !.location = pos], "location", fc)
        \* with at_frame(0): set_visibility(obj, False)
        inside == AtFrameEnter(0)
        o2 == SetVisibility(o1, FALSE, inside)
        after == AtFrameExit(fc, inside)
        \* set_visibility(obj, True)
        o3 == SetVisibility(o2, TRUE, after)
        \* obj.data.materials.append(mat); particles.settings.frame_start = frame_current
        o4 == [o3 EXCEPT !.materials = @ + 1, !.frame_start = after]
    IN  IF found # NoObj
        THEN [objects |-> objs, obj |-> found, frame_current |-> fc, created |-> FALSE]
        ELSE [objects |-> Append(objs, o4), obj |-> Len(objs) + 1,
              frame_current |-> after, created |-> TRUE]

\* Variant: all() instead of any() in the while test.
LoopCondAll == \A p \in Particles : is_dirty[p]

\* while any(p.is_dirty for p in simulation.particles)
LoopCond == \E p \in Particles : is_dirty[p]

\* ------------------------------------------------------------------ driver

\* simulation.start(): time_passed = 0, every particle alive and dirty.
SimStart ==
    /\ time_passed' = 0
    /\ steps' = 0
    /\ is_alive' = [p \in Particles |-> TRUE]
    /\ is_dirty' = [p \in Particles |-> TRUE]
    /\ death_step' = [p \in Particles |-> 0]
    /\ UNCHANGED position

\* simulation.step(): time advances by dt; every alive particle moves (by dt,
\* inside the chamber 0..MaxPos) and either stays alive or becomes not-alive
\* (with is_dirty set); a particle that is not alive is never touched again.
\* The driver never clears is_dirty.
SimStep ==
    \E dt \in Dts, dies \in SUBSET {p \in Particles : is_alive[p]} :
        /\ steps + 1 >= MaxSteps => dies = {p \in Particles : is_alive[p]}
        /\ time_passed' = time_passed + dt
        /\ steps' = steps + 1
        /\ position' = [p \in Particles |->
                           IF is_alive[p] THEN (position[p] + dt) % (MaxPos + 1)
                           ELSE position[p]]
        /\ is_alive' = [p \in Particles |-> is_alive[p] /\ p \notin dies]
        /\ is_dirty' = [p \in Particles |-> is_dirty[p] \/ is_alive[p]]
        /\ death_step' = [p \in Particles |->
                             IF p \in dies THEN steps + 1 ELSE death_step[p]]

\* ---------------------------------------------------------- run_simulation

Init ==
    /\ pc = "init"
    /\ idx = 0
    /\ obj = NoObj
    /\ frame = 0
    /\ is_alive = [p \in Particles |-> TRUE]
    /\ is_dirty = [p \in Particles |-> FALSE]
    /\ position = [p \in Particles |-> 0]
    /\ time_passed = 0
    /\ steps = 0
    /\ objects = <<>>
    /\ frame_current = 0
    /\ created_now = FALSE
    /\ final_count = [p \in Particles |-> 0]
    /\ post_ops = [p \in Particles |-> {}]
    /\ death_step = [p \in Particles |-> 0]
    /\ final_frame = [p \in Particles |-> NoFrame]
    /\ run = 1

\* simulation.start(); frame = 0
Start ==
    /\ pc = "init"
    /\ SimStart
    /\ frame' = 0
    /\ pc' = "loop"
    /\ UNCHANGED <<idx, obj, objects, frame_current, created_now, final_count, post_ops,
                   final_frame, run>>

\* One passage of the while test into the body: simulation.step(), the frame
\* computation and bpy.context.scene.frame_set(frame).
Step ==
    /\ pc = "loop"
    /\ LoopCond
    /\ steps < MaxSteps + 1      \* runs longer than the driver's bound are cut off
    /\ SimStep
    /\ frame' = FrameOf(time_passed')
    /\ frame_current' = frame'
    /\ idx' = 0
    /\ pc' = "resolve"
    /\ UNCHANGED <<obj, objects, created_now, final_count, post_ops, final_frame, run>>

\* The while test fails: run_simulation returns.
Exit ==
    /\ pc = "loop"
    /\ ~LoopCond
    /\ pc' = "done"
    /\ UNCHANGED <<idx, obj, frame, objects, frame_current, created_now,
                   final_count, post_ops, simVars, final_frame, run>>

\* obj = get_or_create_particle(p, i)
Resolve ==
    /\ pc = "resolve"
    /\ LET r == GetOrCreateParticle(objects, frame_current, position[idx], idx)
           ops == IF r.created
                  THEN {"lookup", "create", "location", "keyframe", "visibility"}
                  ELSE {"lookup"}
       IN  /\ objects' = r.objects
           /\ obj' = r.obj
           /\ frame_current' = r.frame_current
           /\ created_now' = r.created
           /\ post_ops' = IF final_count[idx] > 0
                          THEN [post_ops EXCEPT ![idx] = @ \cup ops]
                          ELSE post_ops
    /\ pc' = "branch"
    /\ UNCHANGED <<idx, frame, final_count, simVars, final_frame, run>>

\* The end of one for-loop iteration: the next particle, or back to the while test.
NextParticle ==
    /\ idx' = IF idx + 1 < NumParticles THEN idx + 1 ELSE idx
    /\ pc' = IF idx + 1 < NumParticles THEN "resolve" ELSE "loop"

AliveOps(o) == {"location", "keyframe"} \cup (IF o.hide_render THEN {"visibility"} ELSE {})

\* Variant: the keyframe is recorded before the position is written.
AliveBranchKeyFirst(o, pos, fc) ==
    LET o1 == KeyframeInsert(SetVisibility(o, TRUE, fc), "location", fc)
    IN  [o1 EXCEPT !.location = pos]

\* if p.is_alive: set_visibility(obj, True); obj.location = p.position;
\*                obj.keyframe_insert(data_path="location")
AliveBranch(o, pos, fc) ==
    LET o1 == SetVisibility(o, TRUE, fc)
    IN  KeyframeInsert([o1 EXCEPT !.location = pos], "location", fc)

\* Variant: the elif arm without set_visibility(obj, False).
FinalizeBranchNoHide(o, pos, fc) ==
    [KeyframeInsert([o EXCEPT !.location = pos], "location", fc) EXCEPT !.frame_end = fc]

\* Variant: the elif arm without the frame_end assignment.
FinalizeBranchNoFrameEnd(o, pos, fc) ==
    SetVisibility(KeyframeInsert([o EXCEPT !.location = pos], "location", fc), FALSE, fc)

\* elif p.is_dirty: obj.location = p.position; keyframe; set_visibility(obj, False);
\*                  obj.particle_systems[0].settings.frame_end = frame_current
FinalizeBranch(o, pos, fc) ==
    LET o1 == KeyframeInsert([o EXCEPT !.location = pos], "location", fc)
        o2 == SetVisibility(o1, FALSE, fc)
    IN  [o2 EXCEPT !.frame_end = fc]

\* Variant: the flag of every particle is cleared.
ClearDirtyAll(dirty, i) == [p \in DOMAIN dirty |-> FALSE]

\* Variant: the elif arm without p.is_dirty = False.
ClearDirtyNot(dirty, i) == dirty

\* p.is_dirty = False
ClearDirty(dirty, i) == [dirty EXCEPT ![i] = FALSE]

\* Variant: a plain else in place of elif p.is_dirty.
TakesFinalizeAlways(i) == ~is_alive[i]

\* The guard of the elif arm.
TakesFinalize(i) == ~is_alive[i] /\ is_dirty[i]

BranchAlive ==
    /\ pc = "branch"
    /\ is_alive[idx]
    /\ objects' = [objects EXCEPT ![obj] = AliveBranch(@, position[idx], frame_current)]
    /\ post_ops' = IF final_count[idx] > 0
                   THEN [post_ops EXCEPT ![idx] = @ \cup AliveOps(objects[obj])]
                   ELSE post_ops
    /\ NextParticle
    /\ UNCHANGED <<obj, frame, frame_current, created_now, final_count, simVars,
                   final_frame, run>>

\* obj.particle_systems[0] exists: the object is one this pipeline created.
HasParticleSystem(o) == o.kind = "MESH"

BranchFinalize ==
    /\ pc = "branch"
    /\ TakesFinalize(idx)
    /\ HasParticleSystem(objects[obj])
    /\ is_dirty' = ClearDirty(is_dirty, idx)
    /\ objects' = [objects EXCEPT ![obj] = FinalizeBranch(@, position[idx], frame_current)]
    /\ final_count' = [final_count EXCEPT ![idx] = @ + 1]
    /\ final_frame' = [final_frame EXCEPT ![idx] = frame]
    /\ post_ops' = IF final_count[idx] > 0
                   THEN [post_ops EXCEPT ![idx] = @ \cup {"location", "keyframe", "visibility"}]
                   ELSE post_ops
    /\ NextParticle
    /\ UNCHANGED <<obj, frame, frame_current, created_now,
                   is_alive, position, time_passed, steps, death_step, run>>

\* not alive and not dirty: nothing is done for the particle.
BranchNone ==
    /\ pc = "branch"
    /\ ~is_alive[idx]
    /\ ~TakesFinalize(idx)
    /\ NextParticle
    /\ UNCHANGED <<obj, frame, objects, frame_current, created_now,
                   final_count, post_ops, simVars, final_frame, run>>

Next ==
    \/ Start
    \/ Step
    \/ Exit
    \/ Resolve
    \/ BranchAlive
    \/ BranchFinalize
    \/ BranchNone

Spec == Init /\ [][Next]_vars

FairSpec == Spec /\ WF_vars(Next)

TypeOK ==
    /\ pc \in {"init", "loop", "resolve", "branch", "done", "raised"}
    /\ idx \in Particles
    /\ is_alive \in [Particles -> BOOLEAN]
    /\ is_dirty \in [Particles -> BOOLEAN]
    /\ position \in [Particles -> Positions]
    /\ obj \in 0 .. Len(objects)

\* ------------------------------------------------------------ observations

\* The frames / values of the keyframes recorded for an object, in emission order.
PathLog(o, path) == SelectSeq(o.log, LAMBDA e : e.path = path)
NonDecreasing(lg) == \A k \in 1 .. (Len(lg) - 1) : lg[k].frame <= lg[k + 1].frame
\* The objects that were created for particle index i.
MadeFor(i) == {h \in DOMAIN objects : SubSeq(objects[h].name, 1, 2) = ParticleName(i)}
LastDeath == CHOOSE d \in {death_step[p] : p \in Particles} :
                 \A p \in Particles : death_step[p] <= d

\* ------------------------------------------------------------------ claims

\* C1: across one run the finalization branch (not alive and dirty) fires
\* exactly once for every particle: never twice, and once by the time
\* run_simulation returns.
C1_ExactlyOnceFinalization ==
    /\ \A p \in Particles : final_count[p] <= 1
    /\ pc = "done" => \A p \in Particles : final_count[p] = 1
C1_Witness ==
    /\ pc = "done"
    /\ \A p \in Particles : final_count[p] = 1
    /\ \E p \in Particles : death_step[p] < steps

\* C2: when run_simulation returns, every particle is finalized: not alive,
\* not dirty, and its finalization branch has been executed.
C2_CompleteOnReturn ==
    pc = "done" =>
        \A p \in Particles : ~is_alive[p] /\ ~is_dirty[p] /\ final_count[p] >= 1
C2_Witness ==
    /\ pc = "done"
    /\ steps >= 2
    /\ \E p, q \in Particles : death_step[p] # death_step[q]

\* C3: get_or_create_particle creates at most one object per particle index,
\* every call for index i returns that one object, named "Particle i", and
\* there are never more objects than particles.
C3_IdempotentMaterialization ==
    /\ \A i \in Particles : Cardinality(MadeFor(i)) <= 1
    /\ Len(objects) <= NumParticles
    /\ pc = "branch" =>
          /\ obj \in MadeFor(idx)
          /\ objects[obj].name = ParticleName(idx)
C3_Witness ==
    /\ pc = "branch"
    /\ ~created_now
    /\ steps >= 3
    /\ Len(objects) = NumParticles
    /\ obj \in MadeFor(idx)

\* C4: no two consecutive visibility keyframes of an object record the same
\* value, and the last one recorded is the object's current visibility
\* (set_visibility changes nothing and records nothing when the requested
\* visibility is the current one).
C4_VisibilityDeduplicated ==
    \A h \in DOMAIN objects :
        LET v == PathLog(objects[h], "hide_render")
        IN  /\ \A k \in 1 .. (Len(v) - 1) : v[k].value # v[k + 1].value
            /\ Len(v) > 0 => (v[Len(v)].value = 1) = objects[h].hide_render
C4_Witness ==
    \E h \in DOMAIN objects :
        /\ Len(PathLog(objects[h], "hide_render")) = 3
        /\ Len(PathLog(objects[h], "location")) >= 4

\* C5: with a driver in which every particle becomes not-alive within a
\* bounded number of steps and no finalized particle is re-dirtied, the loop
\* terminates, after no more iterations than the step of the last death.
C5_Terminates == <>(pc = "done" /\ steps <= LastDeath)
C5_Witness ==
    /\ pc = "done"
    /\ steps = LastDeath
    /\ steps = MaxSteps

\* C6 (as stated): after a particle's finalization no host operation at all
\* is performed for it, not even an object lookup.
C6_NoHostOperationAfterFinalization ==
    \A p \in Particles : post_ops[p] = {}

\* C6 (amended): after a particle's finalization the only host operation
\* performed for it is the per-step object lookup: no creation, no position
\* write, no keyframe, no visibility change.
C6_OnlyLookupAfterFinalization ==
    \A p \in Particles : post_ops[p] \subseteq {"lookup"}
C6_Witness ==
    \E p \in Particles :
        /\ final_count[p] = 1
        /\ post_ops[p] = {"lookup"}
        /\ pc = "done"

\* C7: the frame mapping is monotonic with frame(0) = 0, the frame of a step
\* is the mapping of time_passed, and the frames set on the host timeline at
\* successive steps never decrease.
C7_MonotonicFrameMapping ==
    [][/\ FrameOf(0) = 0
       /\ time_passed <= time_passed'
       /\ FrameOf(time_passed) <= FrameOf(time_passed')
       /\ frame <= frame'
       /\ frame_current <= frame_current'
       /\ pc' = "resolve" => frame_current' = FrameOf(time_passed')]_vars
C7_Witness ==
    /\ steps = 3
    /\ frame = 2
    /\ frame_current = 2
    /\ time_passed = 5

\* C8 (as stated): right after get_or_create_particle created the object at
\* timeline frame f, for every f >= 0, the visibility timeline holds an
\* invisible keyframe at frame 0 and the object is visible at frame f.
C8_InvisibleAtZeroVisibleAtF ==
    (pc = "branch" /\ created_now) =>
        LET o == objects[obj]
        IN  /\ 0 \in DOMAIN o.hide_keys
            /\ o.hide_keys[0] = TRUE
            /\ ~o.hide_render
            /\ frame_current \in DOMAIN o.hide_keys
            /\ o.hide_keys[frame_current] = FALSE

\* C8 (amended): right after get_or_create_particle created the object at
\* timeline frame f > 0, the visibility timeline holds an invisible keyframe
\* at frame 0 and a visible one at f, and the object is visible; at f = 0 the
\* visible keyframe replaces the invisible one, so frame 0 holds a visible
\* keyframe and no invisible keyframe exists.
C8_InvisibleAtZeroWhenCreatedLater ==
    (pc = "branch" /\ created_now) =>
        LET o == objects[obj]
        IN  /\ ~o.hide_render
            /\ o.frame_start = frame_current
            /\ DOMAIN o.hide_keys = {0, frame_current}
            /\ o.hide_keys[frame_current] = FALSE
            /\ frame_current > 0 => o.hide_keys[0] = TRUE
C8_Witness ==
    /\ pc = "branch"
    /\ created_now
    /\ frame_current > 0
    /\ objects[obj].hide_keys[0] = TRUE
    /\ objects[obj].hide_keys[frame_current] = FALSE

\* C9 (as stated): over the whole run no keyframe of an object is recorded at
\* a frame lower than the frame of a keyframe recorded earlier for it.
C9_KeyframesFrameMonotonic ==
    \A h \in DOMAIN objects : NonDecreasing(objects[h].log)

\* C9 (amended): for every object and each keyframed property (location,
\* hide_render) taken alone, the frames of the keyframes recorded are
\* non-decreasing in emission order; across properties the frame-0 visibility
\* keyframe of the creation follows the location keyframe at the creation frame.
C9_KeyframesMonotonicPerProperty ==
    \A h \in DOMAIN objects :
        /\ NonDecreasing(PathLog(objects[h], "location"))
        /\ NonDecreasing(PathLog(objects[h], "hide_render"))
C9_Witness ==
    \E h \in DOMAIN objects :
        /\ objects[h].frame_start > 0
        /\ Len(PathLog(objects[h], "location")) >= 4
        /\ Len(PathLog(objects[h], "hide_render")) = 3
        /\ objects[h].frame_end > objects[h].frame_start

\* C10: for every object, no two position keyframes are recorded at the same
\* frame number.
C10_NoDuplicatePositionKeyframes ==
    \A h \in DOMAIN objects :
        LET lg == PathLog(objects[h], "location")
        IN  \A j, k \in 1 .. Len(lg) : j # k => lg[j].frame # lg[k].frame

\* ------------------------------------------- a host call fails in at_frame

\* get_or_create_particle creates the object and the keyframe_insert of
\* set_visibility(obj, False), inside `with at_frame(0)`, raises: the
\* exception leaves at_frame, get_or_create_particle and run_simulation.
ResolveRaises ==
    /\ pc = "resolve"
    /\ ObjectsGet(objects, ParticleName(idx)) = NoObj
    /\ LET o0 == NewObject(objects, ParticleName(idx), position[idx])
           o1 == KeyframeInsert([o0 EXCEPT !.location = position[idx]],
                                "location", frame_current)
           inside == AtFrameEnter(0)
       IN  /\ objects' = Append(objects, [o1 EXCEPT !.hide_render = TRUE])
           /\ frame_current' = AtFrameRaise(frame_current, inside)
    /\ pc' = "raised"
    /\ UNCHANGED <<idx, obj, frame, created_now, final_count, post_ops, simVars,
                   final_frame, run>>

NextFault == Next \/ ResolveRaises

SpecFault == Init /\ [][NextFault]_vars

\* The particles the for loop of the current step has already handled.
Processed(p) ==
    /\ steps >= 1
    /\ \/ pc \in {"loop", "done"}
       \/ pc \in {"resolve", "branch"} /\ p < idx
\* The object the name of particle p resolves to.
ObjOf(p) == objects[ObjectsGet(objects, ParticleName(p))]
LastOf(lg) == lg[Len(lg)]

\* C11: at_frame restores the timeline position it found on entry (the step's
\* frame) on every exit path: when get_or_create_particle returned after the
\* excursion, and when the body of the with-block raised.
C11_AtFrameRestoresOnEveryExit ==
    (pc = "raised" \/ (pc = "branch" /\ created_now)) => frame_current = frame

\* C12: get_or_create_particle returns with the timeline position it was
\* called with, whether it created the object or looked it up, so that the
\* position keyframe of every particle handled in a step (alive, or finalized
\* in that step) is recorded at the step's frame int(time_passed * FPS).
C12_ResolveKeepsTimeline ==
    /\ pc = "branch" => frame_current = frame /\ frame = FrameOf(time_passed)
    /\ \A p \in Particles :
          (Processed(p) /\ (is_alive[p] \/ death_step[p] = steps)) =>
              LastOf(PathLog(ObjOf(p), "location")).frame = FrameOf(time_passed)
C12_Witness ==
    /\ pc = "branch"
    /\ created_now
    /\ frame_current > 0
    /\ idx > 0
    /\ Processed(idx - 1)
    /\ LastOf(PathLog(ObjOf(idx - 1), "location")).frame = frame

\* ------------------------------------------ a second run in the same session

\* clear_all(): every object is deleted and the timeline is set to frame 0.
ClearAll ==
    /\ pc = "done"
    /\ run < MaxRuns
    /\ objects # <<>>
    /\ objects' = <<>>
    /\ frame_current' = 0
    /\ UNCHANGED <<pc, idx, obj, frame, created_now, final_count, post_ops, simVars,
                   final_frame, run>>

\* run_simulation is called again, on a fresh Simulation, in the host session
\* the previous call left behind: bpy.data.objects and the timeline are kept.
Rerun ==
    /\ pc = "done"
    /\ run < MaxRuns
    /\ steps <= MaxFirstRun
    /\ run' = run + 1
    /\ pc' = "init"
    /\ idx' = 0
    /\ obj' = NoObj
    /\ frame' = 0
    /\ created_now' = FALSE
    /\ is_alive' = [p \in Particles |-> TRUE]
    /\ is_dirty' = [p \in Particles |-> FALSE]
    /\ position' = [p \in Particles |-> 0]
    /\ time_passed' = 0
    /\ steps' = 0
    /\ final_count' = [p \in Particles |-> 0]
    /\ post_ops' = [p \in Particles |-> {}]
    /\ death_step' = [p \in Particles |-> 0]
    /\ final_frame' = [p \in Particles |-> NoFrame]
    /\ UNCHANGED <<objects, frame_current>>

NextRerun == Next \/ ClearAll \/ Rerun

SpecRerun == Init /\ [][NextRerun]_vars

\* C13: in a second run of run_simulation in the same host session no
\* particle index resolves to the object created for it in the first run.
C13_NoStaleObjectAcrossRuns ==
    (pc = "branch" /\ run > 1) => objects[obj].made_in = run

\* --------------------------- the scene already holds an object of the name

\* An object of another kind (a camera, say), without a particle system, that
\* the scene holds under the name "Particle i" before the run.
ForeignObject(i) ==
    [name |-> ParticleName(i), hide_render |-> FALSE, location |-> 0,
     loc_keys |-> <<>>, hide_keys |-> <<>>, materials |-> 0,
     frame_start |-> NoFrame, frame_end |-> NoFrame, log |-> <<>>,
     kind |-> "CAMERA", made_in |-> 0]

InitForeign ==
    /\ pc = "init"
    /\ idx = 0
    /\ obj = NoObj
    /\ frame = 0
    /\ is_alive = [p \in Particles |-> TRUE]
    /\ is_dirty = [p \in Particles |-> FALSE]
    /\ position = [p \in Particles |-> 0]
    /\ time_passed = 0
    /\ steps = 0
    /\ \E i \in Particles : objects = <<ForeignObject(i)>>
    /\ frame_current = 0
    /\ created_now = FALSE
    /\ final_count = [p \in Particles |-> 0]
    /\ post_ops = [p \in Particles |-> {}]
    /\ death_step = [p \in Particles |-> 0]
    /\ final_frame = [p \in Particles |-> NoFrame]
    /\ run = 1

\* The elif arm on an object without a particle system: the position, its
\* keyframe and the visibility are written, then particle_systems[0] raises
\* IndexError, which leaves run_simulation.
BranchFinalizeRaises ==
    /\ pc = "branch"
    /\ TakesFinalize(idx)
    /\ ~HasParticleSystem(objects[obj])
    /\ is_dirty' = ClearDirty(is_dirty, idx)
    /\ objects' = [objects EXCEPT ![obj] =
                      SetVisibility(KeyframeInsert([@ EXCEPT !.location = position[idx]],
                                                   "location", frame_current),
                                    FALSE, frame_current)]
    /\ final_count' = [final_count EXCEPT ![idx] = @ + 1]
    /\ final_frame' = [final_frame EXCEPT ![idx] = frame]
    /\ pc' = "raised"
    /\ UNCHANGED <<idx, obj, frame, frame_current, created_now, post_ops,
                   is_alive, position, time_passed, steps, death_step, run>>

\* The steps of run_simulation in such a scene.  The while test never fails
\* here: the conflicting particle stays dirty until its finalization raises.
NextForeign ==
    \/ Start
    \/ Step
    \/ Resolve
    \/ BranchAlive
    \/ BranchFinalize
    \/ BranchNone
    \/ BranchFinalizeRaises

SpecForeign == InitForeign /\ [][NextForeign]_vars

\* C14: when the name "Particle i" maps to an object of another kind, the run
\* aborts instead of using it: get_or_create_particle never hands such an
\* object to the branches and no keyframe is ever recorded on it.
C14_IdentityConflictAborts ==
    /\ pc = "branch" => objects[obj].kind = "MESH"
    /\ \A h \in DOMAIN objects :
          objects[h].kind # "MESH" => objects[h].log = <<>>

\* ------------------------------------------------ a driver that never converges

\* simulation.step() of a driver that breaks the dirty-flag contract: nothing
\* forces a particle to become not-alive, so an alive particle may stay alive
\* (and dirty) in every step.
SimStepStall ==
    \E dt \in Dts, dies \in SUBSET {p \in Particles : is_alive[p]} :
        /\ time_passed' = time_passed + dt
        /\ steps' = steps + 1
        /\ position' = [p \in Particles |->
                           IF is_alive[p] THEN (position[p] + dt) % (MaxPos + 1)
                           ELSE position[p]]
        /\ is_alive' = [p \in Particles |-> is_alive[p] /\ p \notin dies]
        /\ is_dirty' = [p \in Particles |-> is_dirty[p] \/ is_alive[p]]
        /\ death_step' = [p \in Particles |->
                             IF p \in dies THEN steps + 1 ELSE death_step[p]]

\* The while test and the head of the loop body, with that driver.  The loop
\* has no iteration counter; runs are followed for MaxSteps + 1 iterations.
StepStall ==
    /\ pc = "loop"
    /\ LoopCond
    /\ steps < MaxSteps + 1
    /\ SimStepStall
    /\ frame' = FrameOf(time_passed')
    /\ frame_current' = frame'
    /\ idx' = 0
    /\ pc' = "resolve"
    /\ UNCHANGED <<obj, objects, created_now, final_count, post_ops, final_frame, run>>

NextStall ==
    \/ Start
    \/ StepStall
    \/ Exit
    \/ Resolve
    \/ BranchAlive
    \/ BranchFinalize
    \/ BranchNone

SpecStall == Init /\ [][NextStall]_vars

\* C15: with a driver that never converges the run stops after a bounded
\* number of iterations with a failure: the loop body is not entered more
\* than MaxSteps times unless the run has been aborted.
C15_StallAbortsWithinBound ==
    steps <= MaxSteps \/ pc = "raised"

\* --------------------------------------------------- claims on the whole run

\* C16: a material is made and assigned exactly once per object, when the
\* object is created; no later call of get_or_create_particle (a lookup) and
\* no branch of the loop assigns another one: at every moment every object
\* carries exactly one material.
C16_MaterialAssignedOnce ==
    \A h \in DOMAIN objects : objects[h].materials = 1
C16_Witness ==
    /\ pc = "branch"
    /\ ~created_now
    /\ steps = MaxSteps
    /\ objects[obj].materials = 1
    /\ Len(PathLog(objects[obj], "location")) >= MaxSteps

\* C17: after every iteration of the run loop, the object of every particle
\* that is alive has the particle's position and holds a position keyframe
\* with that value at the step's frame int(time_passed * FPS).
C17_LiveParticleKeyframed ==
    \A p \in Particles :
        (Processed(p) /\ is_alive[p]) =>
            LET o == ObjOf(p)
                f == FrameOf(time_passed)
            IN  /\ o.location = position[p]
                /\ f \in DOMAIN o.loc_keys
                /\ o.loc_keys[f] = position[p]
                /\ LastOf(PathLog(o, "location")) =
                       [path |-> "location", frame |-> f, value |-> position[p]]
C17_Witness ==
    /\ pc = "loop"
    /\ steps = 3
    /\ \E p, q \in Particles :
          /\ is_alive[p] /\ is_alive[q] /\ p # q
          /\ Cardinality(DOMAIN ObjOf(p).loc_keys) = 3

\* C18: once a particle is finalized its object is hidden, its last
\* visibility keyframe is the invisible one recorded at the finalization
\* frame, and the object is never made visible again.
C18_HiddenAfterFinalization ==
    \A p \in Particles :
        final_count[p] >= 1 =>
            LET o == ObjOf(p)
                v == PathLog(o, "hide_render")
            IN  /\ o.hide_render
                /\ Len(v) > 0
                /\ LastOf(v).value = 1
                /\ LastOf(v).frame = final_frame[p]
                /\ o.hide_keys[final_frame[p]] = TRUE
C18_Witness ==
    \E p \in Particles :
        /\ final_count[p] = 1
        /\ death_step[p] = 1
        /\ steps = MaxSteps
        /\ pc = "done"
        /\ ObjOf(p).hide_render
        /\ final_frame[p] < frame

\* C19: the pipeline (every step of run_simulation but simulation.start()
\* and simulation.step()) writes nothing to a particle except clearing
\* is_dirty of a particle that is not alive.
C19_OnlyClearsDirtyOfDeadParticle ==
    [][(pc \in {"resolve", "branch"} \/ pc' = "done") =>
          /\ is_alive' = is_alive
          /\ position' = position
          /\ \A p \in Particles :
                is_dirty'[p] # is_dirty[p] => (~is_alive[p] /\ ~is_dirty'[p])]_vars
C19_Witness ==
    \E p, q \in Particles :
        /\ final_count[p] = 1 /\ ~is_dirty[p] /\ ~is_alive[p]
        /\ is_alive[q] /\ is_dirty[q]
        /\ Processed(q)

\* C20: for every finalized particle the particle system's frame_end is the
\* frame of the step that finalized it, and frame_start, the timeline frame
\* at the object's creation, is not after it.
C20_EffectWindowWellFormed ==
    \A p \in Particles :
        final_count[p] >= 1 =>
            LET o == ObjOf(p)
            IN  /\ o.frame_end = final_frame[p]
                /\ death_step[p] = steps => final_frame[p] = FrameOf(time_passed)
                /\ o.frame_start >= 0
                /\ o.frame_start <= o.frame_end
C20_Witness ==
    \E p \in Particles :
        /\ final_count[p] = 1
        /\ ObjOf(p).frame_start > 0
        /\ ObjOf(p).frame_end > ObjOf(p).frame_start

====
